---- MODULE Spec2Model ----
(***************************************************************************)
(* Model of the factor-construction code of the lecture notebooks           *)
(* (Lectures/Topic4_Factors_and_Alphas.ipynb).                              *)
(*                                                                          *)
(* A dataframe is a sequence of rows in index order (PERMNO, date); a row   *)
(* is a function from column names to integers.  Dates are month ordinals:  *)
(* month-of-year of date d is ((d - 1) % 12) + 1, so 6, 18, 30 are Junes.   *)
(* Missing values are the integer NaN.  Quotients are kept exact as reduced *)
(* fractions <<numerator, denominator>>.  Percentile breakpoints are kept   *)
(* in hundredths (np.percentile interpolates linearly with weights k/100).  *)
(***************************************************************************)
EXTENDS Integers, Sequences, FiniteSets, TLC

VARIABLES cs_crsp, sort_variables, annual, loop_i, portfolio_returns, hml, pc,
          lastcall, alt, alt_returns, compustat, reports, umd, nb, nb_alt
vars == <<cs_crsp, sort_variables, annual, loop_i, portfolio_returns, hml, pc,
          lastcall, alt, alt_returns, compustat, reports, umd, nb, nb_alt>>

\* np.nan
NaN == -999999

\* ---------------------------------------------------------------- bounds
NumFirms == 3
LastDate == 7
NumTimingFirms == 2
TimingLast == 9
NumReports == 2
MomentumLast == 13
NumUmdFirms == 4
NumUmdSeeds == 5
NumStrevStocks == 3
StrevLast == 14
NumPosStocks == 4
NumFFStocks == 6
FFLast == 3
NumAssets == 3
NumPeriods == 4
NumHmlFirms == 4
HmlLast == 9

\* the month of the annual sort (date.month != 6)
June == 6
FirstDate == June - 1

Firms == 1..NumFirms
Dates == FirstDate..LastDate

\* ---------------------------------------------------------------- helpers
isnull(x) == x = NaN
notnull(x) == x # NaN

\* date.month of a monthly period
month(d) == ((d - 1) % 12) + 1

RECURSIVE GCD(_, _)
GCD(a, b) == IF b = 0 THEN a ELSE GCD(b, a % b)

Abs(x) == IF x < 0 THEN -x ELSE x

\* float division n / d of two (non-missing) numbers, kept exact: <<1, 0>> is
\* inf, <<-1, 0>> is -inf and <<0, 0>> (0 / 0) is NaN
Frac(n, d) ==
    IF d = 0 THEN (IF n > 0 THEN <<1, 0>> ELSE IF n < 0 THEN <<-1, 0>> ELSE <<0, 0>>)
    ELSE LET g == GCD(Abs(n), Abs(d))
             s == IF d < 0 THEN -1 ELSE 1
         IN <<(s * n) \div g, (s * d) \div g>>

\* float addition: inf + inf = inf, inf - inf = NaN, NaN + x = NaN
FracAdd(x, y) ==
    IF x[2] = 0 /\ y[2] = 0 THEN (IF x = y THEN x ELSE <<0, 0>>)
    ELSE Frac(x[1] * y[2] + y[1] * x[2], x[2] * y[2])
FracSub(x, y) == FracAdd(x, <<-y[1], y[2]>>)
FracHalf(x) == Frac(x[1], 2 * x[2])
\* float comparison x <= y: False when either side is NaN
FracLeq(x, y) ==
    IF x = <<0, 0>> \/ y = <<0, 0>> THEN FALSE
    ELSE IF x[2] = 0 /\ y[2] = 0 THEN x[1] <= y[1]
    ELSE x[1] * y[2] <= y[1] * x[2]

RECURSIVE SumSeq(_)
SumSeq(s) == IF s = <<>> THEN 0 ELSE Head(s) + SumSeq(Tail(s))

\* the column c of df as a sequence
Col(df, c) == [i \in 1..Len(df) |-> df[i][c]]

\* df[c] = v : add or overwrite column c
SetCol(df, c, v) ==
    [i \in 1..Len(df) |->
        [k \in (DOMAIN df[i]) \cup {c} |-> IF k = c THEN v[i] ELSE df[i][k]]]

\* positions of the rows of firm p before / after position i
PrevOf(df, i) == {j \in 1..(i-1) : df[j]["PERMNO"] = df[i]["PERMNO"]}
NextOf(df, i) == {j \in (i+1)..Len(df) : df[j]["PERMNO"] = df[i]["PERMNO"]}
Max(S) == CHOOSE x \in S : \A y \in S : y <= x
Min(S) == CHOOSE x \in S : \A y \in S : x <= y

Range(f) == {f[x] : x \in DOMAIN f}

RECURSIVE SetToSortedSeq(_)
SetToSortedSeq(S) ==
    IF S = {} THEN <<>> ELSE <<Min(S)>> \o SetToSortedSeq(S \ {Min(S)})

\* the table with one row per key of keys (a set of <<PERMNO, date>>), in
\* index order, row(p, d) giving the columns
MkTable(keys, row(_, _)) ==
    LET code == SetToSortedSeq({key[1] * 1000 + key[2] : key \in keys})
    IN [i \in 1..Len(code) |-> row(code[i] \div 1000, code[i] % 1000)]

\* position of the row of firm p in month d, 0 if the firm has none
RowOf(df, p, d) ==
    LET S == {i \in 1..Len(df) : df[i]["PERMNO"] = p /\ df[i]["date"] = d}
    IN IF S = {} THEN 0 ELSE CHOOSE i \in S : TRUE

\* mutant of GroupShiftBack: shift(1), the value of the firm's previous row
GroupShiftForward(df, s) ==
    [i \in 1..Len(df) |->
        IF PrevOf(df, i) = {} THEN NaN ELSE s[Max(PrevOf(df, i))]]

\* s.groupby(level='PERMNO').shift(-1) : the value of the firm's next row
GroupShiftBack(df, s) ==
    [i \in 1..Len(df) |->
        IF NextOf(df, i) = {} THEN NaN ELSE s[Min(NextOf(df, i))]]

\* s.groupby(level='PERMNO').ffill(limit=n) : carry the last valid value of
\* the firm forward over at most n consecutive missing rows of that firm
GroupFfill(df, s, n) ==
    [i \in 1..Len(df) |->
        IF notnull(s[i]) THEN s[i]
        ELSE LET valid == {j \in PrevOf(df, i) : notnull(s[j])}
             IN IF valid = {} THEN NaN
                ELSE LET j == Max(valid)
                         gap == Cardinality({k \in PrevOf(df, i) : k > j}) + 1
                     IN IF gap <= n THEN s[j] ELSE NaN]

\* np.percentile(x, pct) in hundredths, x a non-empty sequence of numbers
Percentile100(x, pct) ==
    LET srt == SortSeq(x, LAMBDA a, b : a < b)
        n == Len(srt)
        h == (n - 1) * pct
        lo == (h \div 100) + 1
        hi == IF lo < n THEN lo + 1 ELSE lo
    IN 100 * srt[lo] + (h % 100) * (srt[hi] - srt[lo])

\* ------------------------------------------------- portfolio_sort (Function 1)
\* sortvar.dropna() on date d: the values of col that enter the breakpoints
\* (NYSE rows only when nyse), in row order
sortvar(df, col, nyse, d) ==
    LET rows == SelectSeq(df, LAMBDA r : /\ r["date"] = d
                                         /\ (nyse => r["EXCHCD"] = 1)
                                         /\ notnull(r[col]))
    IN [i \in 1..Len(rows) |-> rows[i][col]]

\* grp.apply(lambda x: np.percentile(x, pct)) looked up at date d (hundredths);
\* a date without values has no breakpoint and merges as NaN
breakpoint(df, col, nyse, pct, d) ==
    LET x == sortvar(df, col, nyse, d)
    IN IF x = <<>> THEN NaN ELSE Percentile100(x, pct)

\* df.merge(breakpoint, left_on='date', right_index=True, how='left')
merge_breakpoint(cur, df, col, nyse, pct) ==
    LET bp == [d \in {df[i]["date"] : i \in 1..Len(df)} |->
                  breakpoint(df, col, nyse, pct, d)]
    IN SetCol(cur, "breakpoint", [i \in 1..Len(cur) |-> bp[cur[i]["date"]]])

\* mutant of below: the breakpoint itself is excluded from the group
below_strict(value, bp100) == notnull(value) /\ notnull(bp100) /\ 100 * value < bp100

\* df_merged[col] <= df_merged['breakpoint'] (False when either is missing)
below(value, bp100) == notnull(value) /\ notnull(bp100) /\ 100 * value <= bp100

\* df_merged[col] > df_merged['breakpoint'] (False when either is missing)
above(value, bp100) == notnull(value) /\ notnull(bp100) /\ 100 * value > bp100

RECURSIVE sort_loop(_, _, _, _, _, _)
\* the table after the first k passes of "for pct in percentiles"
sort_loop(df, col, nyse, percentiles, id_col, k) ==
    IF k = 0 THEN SetCol(df, id_col, [i \in 1..Len(df) |-> NaN])
    ELSE LET prev == sort_loop(df, col, nyse, percentiles, id_col, k - 1)
             df_merged == merge_breakpoint(prev, df, col, nyse, percentiles[k])
             assigned == [i \in 1..Len(df) |->
                            /\ isnull(df_merged[i][id_col])
                            /\ below(df_merged[i][col], df_merged[i]["breakpoint"])]
         IN SetCol(prev, id_col,
                   [i \in 1..Len(df) |-> IF assigned[i] THEN k ELSE prev[i][id_col]])

\* the rows right of the last breakpoint; df_merged is the merge of the last
\* pass, taken before that pass assigned its group
last_group(df, col, nyse, percentiles, id_col) ==
    LET n == Len(percentiles)
        looped == sort_loop(df, col, nyse, percentiles, id_col, n)
        df_merged == merge_breakpoint(
                        sort_loop(df, col, nyse, percentiles, id_col, n - 1),
                        df, col, nyse, percentiles[n])
        assigned == [i \in 1..Len(df) |->
                        /\ isnull(df_merged[i][id_col])
                        /\ above(df_merged[i][col], df_merged[i]["breakpoint"])]
    IN SetCol(looped, id_col,
              [i \in 1..Len(df) |-> IF assigned[i] THEN n + 1 ELSE looped[i][id_col]])

\* ffill(limit=11) of the annual branch
FfillLimit == 11

\* if annual: blank the non-June assignments, carry June's forward in each firm
annual_fill(df, id_col) ==
    LET cleared == SetCol(df, id_col,
                          [i \in 1..Len(df) |->
                              IF month(df[i]["date"]) # June THEN NaN ELSE df[i][id_col]])
    IN SetCol(cleared, id_col, GroupFfill(cleared, Col(cleared, id_col), FfillLimit))

portfolio_sort(df, col, nyse, percentiles, id_col, annual_) ==
    IF annual_ THEN annual_fill(last_group(df, col, nyse, percentiles, id_col), id_col)
    ELSE last_group(df, col, nyse, percentiles, id_col)

\* ------------------------------------- compute_portfolio_returns (Function 2)
Mul(a, b) == IF isnull(a) \/ isnull(b) THEN NaN ELSE a * b

\* a missing quotient
NaNF == <<0, 0>>

\* require me, sort variables, and return next month (sort_variables is the
\* notebook's global list)
ok(r) ==
    /\ notnull(r["me"])
    /\ notnull(r["retnm"])
    /\ \A k \in 1..Len(sort_variables) : notnull(r[sort_variables[k]])

\* mutant of add_retnm: the filter df[ok] is applied to the caller's table too
add_retnm_filtered(df) ==
    LET d1 == SetCol(df, "retnm", GroupShiftBack(df, Col(df, "ret")))
        d2 == SetCol(d1, "me_x_retnm",
                     [i \in 1..Len(d1) |-> Mul(d1[i]["me"], d1[i]["retnm"])])
    IN SelectSeq(d2, ok)

\* df['retnm'] = ...; df['me_x_retnm'] = ... : the table passed in, as the call leaves it
add_retnm(df) ==
    LET d1 == SetCol(df, "retnm", GroupShiftBack(df, Col(df, "ret")))
    IN SetCol(d1, "me_x_retnm",
              [i \in 1..Len(d1) |-> Mul(d1[i]["me"], d1[i]["retnm"])])

\* the groupby key of a row; groupby drops rows with a missing key
group_key(r, sort_groups) == [k \in 1..Len(sort_groups) |-> r[sort_groups[k]]]
has_key(r, sort_groups) == \A k \in 1..Len(sort_groups) : notnull(r[sort_groups[k]])

\* rows of df[ok] in the group (date d, key g)
members(df, sort_groups, d, g) ==
    SelectSeq(df, LAMBDA r : /\ ok(r)
                             /\ has_key(r, sort_groups)
                             /\ r["date"] = d
                             /\ group_key(r, sort_groups) = g)

\* mutant of group_return: divides by the market cap of all groups of the date
group_return_total_me(df, sort_groups, d, g) ==
    LET m == members(df, sort_groups, d, g)
        all == SelectSeq(df, LAMBDA r : ok(r) /\ has_key(r, sort_groups) /\ r["date"] = d)
    IN IF m = <<>> THEN NaNF
       ELSE Frac(SumSeq([i \in 1..Len(m) |-> m[i]["me_x_retnm"]]),
                 SumSeq([i \in 1..Len(all) |-> all[i]["me"]]))

\* sums['me_x_retnm'] / sums['me'] of one group
group_return(df, sort_groups, d, g) ==
    LET m == members(df, sort_groups, d, g)
    IN IF m = <<>> THEN NaNF
       ELSE Frac(SumSeq([i \in 1..Len(m) |-> m[i]["me_x_retnm"]]),
                 SumSeq([i \in 1..Len(m) |-> m[i]["me"]]))

\* portfolio_returns.unstack(level=sort_groups): one row per date that has a
\* group, one column per group key that occurs
unstacked(df, sort_groups) ==
    LET rows == {i \in 1..Len(df) : ok(df[i]) /\ has_key(df[i], sort_groups)}
        index == SetToSortedSeq({df[i]["date"] : i \in rows})
        columns == {group_key(df[i], sort_groups) : i \in rows}
    IN [index |-> index,
        columns |-> columns,
        data |-> [k \in 1..Len(index) |->
                    [g \in columns |-> group_return(df, sort_groups, index[k], g)]]]

\* frame.shift(1): every value moves down one row of the index
shift1(frame) ==
    [index |-> frame.index,
     columns |-> frame.columns,
     data |-> [k \in 1..Len(frame.index) |->
                 IF k = 1 THEN [g \in frame.columns |-> NaNF]
                 ELSE frame.data[k - 1]]]

\* the value the call returns (df is the table with retnm and me_x_retnm added)
compute_portfolio_returns(df, sort_groups) ==
    shift1(unstacked(add_retnm(df), sort_groups))

\* ------------------------------------------------------------------- hml
\* frame.loc[:, cols].mean(axis=1) of row k: the mean of the non-missing values
row_mean(frame, k, c1, c2) ==
    LET a == frame.data[k][c1]
        b == frame.data[k][c2]
    IN IF a = NaNF THEN b
       ELSE IF b = NaNF THEN a
       ELSE FracHalf(FracAdd(a, b))

\* a - b on floats
Minus(a, b) == IF a = NaNF \/ b = NaNF THEN NaNF ELSE FracSub(a, b)

\* hml = ....loc[:,[(1,3),(2,3)]].mean(axis=1) - ....loc[:,[(1,1),(2,1)]].mean(axis=1)
hml_of(frame) ==
    [index |-> frame.index,
     data |-> [k \in 1..Len(frame.index) |->
                 Minus(row_mean(frame, k, <<1, 3>>, <<2, 3>>),
                       row_mean(frame, k, <<1, 1>>, <<2, 1>>))]]

\* umd = umd.shift(1): every value of the series moves down one index position
shift_factor(series) ==
    [index |-> series.index,
     data |-> [k \in 1..Len(series.index) |->
                 IF k = 1 THEN NaNF ELSE series.data[k - 1]]]

\* umd = ....mean(axis=1) - ....mean(axis=1); umd = umd.shift(1)
umd_of(frame) == shift_factor(hml_of(frame))

\* --------------------------------------- short-term reversals, linear weights
\* (the table df of these cells has index (permno, date) and the column ret)
FracMul(x, y) == IF x = NaNF \/ y = NaNF THEN NaNF ELSE Frac(x[1] * y[1], x[2] * y[2])
FracOf(v) == IF isnull(v) THEN NaNF ELSE <<v, 1>>

\* positions of the rows of the same date as row i with a non-missing ret
DateGroup(df, i) ==
    {j \in 1..Len(df) : df[j]["date"] = df[i]["date"] /\ notnull(df[j]["ret"])}

\* x.rank() of row i within its date (ties get the average rank), times 2
rank2(df, i) ==
    LET G == DateGroup(df, i)
        v == df[i]["ret"]
    IN 2 * Cardinality({j \in G : df[j]["ret"] < v})
       + Cardinality({j \in G : df[j]["ret"] = v}) + 1

\* (x.rank() - x.rank().min()) / (x.rank().max() - x.rank().min()) * (-2) + 1
rank_position(df, i) ==
    IF isnull(df[i]["ret"]) THEN NaNF
    ELSE LET R == {rank2(df, j) : j \in DateGroup(df, i)}
             lo == Min(R)
             hi == Max(R)
         IN IF hi = lo THEN NaNF
            ELSE FracAdd(FracMul(Frac(rank2(df, i) - lo, hi - lo), <<-2, 1>>), <<1, 1>>)

\* df['position'] = df.groupby(level='date')['ret'].transform(...)
with_position(df) == SetCol(df, "position", [i \in 1..Len(df) |-> rank_position(df, i)])

\* (x.rank(pct=True) - 0.5) * -2 : the percentile rank is rank / count
pct_position(df, i) ==
    IF isnull(df[i]["ret"]) THEN NaNF
    ELSE FracMul(FracSub(Frac(rank2(df, i), 2 * Cardinality(DateGroup(df, i))), <<1, 2>>),
                 <<-2, 1>>)

\* df['position'] = ... of the second copy of the reversal cells
with_pct_position(df) == SetCol(df, "position", [i \in 1..Len(df) |-> pct_position(df, i)])

\* df[col].unstack(level='permno'): dates in the index, permnos in the columns
unstack_permno(df, col, missing) ==
    LET index == SetToSortedSeq({df[i]["date"] : i \in 1..Len(df)})
        columns == {df[i]["permno"] : i \in 1..Len(df)}
    IN [index |-> index,
        columns |-> columns,
        data |-> [k \in 1..Len(index) |->
                    [p \in columns |->
                        LET S == {i \in 1..Len(df) :
                                    df[i]["permno"] = p /\ df[i]["date"] = index[k]}
                        IN IF S = {} THEN missing ELSE df[CHOOSE i \in S : TRUE][col]]]]

\* lagged_position.mul(ret).sum(axis=1, min_count=1) of row k
weighted_sum(weights, ret, k) ==
    LET P == {p \in weights.columns :
                weights.data[k][p] # NaNF /\ notnull(ret.data[k][p])}
        seq == SetToSortedSeq(P)
        RECURSIVE total(_)
        total(n) == IF n = 0 THEN <<0, 1>>
                    ELSE FracAdd(total(n - 1),
                                 FracMul(weights.data[k][seq[n]], FracOf(ret.data[k][seq[n]])))
    IN IF P = {} THEN NaNF ELSE total(Len(seq))

portfolio_return_of(lagged, ret) ==
    [index |-> lagged.index,
     data |-> [k \in 1..Len(lagged.index) |-> weighted_sum(lagged, ret, k)]]

VolWindow == 12
VolMinPeriods == 3

RECURSIVE FracSum(_)
FracSum(sq) == IF sq = <<>> THEN <<0, 1>> ELSE FracAdd(Head(sq), FracSum(Tail(sq)))

\* rolling(window=12, min_periods=3).std() of row k, squared: the sample
\* variance of the non-missing values among the last 12 rows
rolling_var(series, k) ==
    LET first == IF k > VolWindow THEN k - VolWindow + 1 ELSE 1
        obs == SelectSeq(SubSeq(series.data, first, k), LAMBDA x : x # NaNF)
        n == Len(obs)
        sum == FracSum(obs)
        sumsq == FracSum([i \in 1..n |-> FracMul(obs[i], obs[i])])
    IN IF n < VolMinPeriods THEN NaNF
       ELSE FracMul(FracSub(sumsq, FracMul(FracMul(sum, sum), <<1, n>>)), <<1, n - 1>>)

\* realized_vol = np.sqrt(12) * ....std(); a volatility is held as its square
realized_vol(portfolio_return) ==
    [index |-> portfolio_return.index,
     data |-> [k \in 1..Len(portfolio_return.index) |->
                 FracMul(<<12, 1>>, rolling_var(portfolio_return, k))]]

\* 0.15 * x / vol is held as <<sign, n, d>>, n / d its square; <<s, 1, 0>> is
\* s * inf and <<0, 0, 0>> is NaN
SNaN == <<0, 0, 0>>
Sign(x) == IF x[1] > 0 THEN 1 ELSE IF x[1] < 0 THEN -1 ELSE 0
scale(x, volsq) ==
    IF x = NaNF \/ volsq = NaNF THEN SNaN
    ELSE IF volsq[1] = 0 THEN (IF x[1] = 0 THEN SNaN ELSE <<Sign(x), 1, 0>>)
    ELSE LET q == Frac(9 * x[1] * x[1] * volsq[2], 400 * x[2] * x[2] * volsq[1])
         IN <<Sign(x), q[1], q[2]>>

\* scaled_position = 0.15 * position.div(realized_vol.shift(1), axis=0)
scaled_position_of(position, vol) ==
    [index |-> position.index,
     columns |-> position.columns,
     data |-> [k \in 1..Len(position.index) |->
                 [p \in position.columns |->
                     scale(position.data[k][p], shift_factor(vol).data[k])]]]

\* mutant of shift_frame: the frame is not shifted
shift_frame_none(frame, missing) == frame

\* frame.shift(1) with the given missing value
shift_frame(frame, missing) ==
    [index |-> frame.index,
     columns |-> frame.columns,
     data |-> [k \in 1..Len(frame.index) |->
                 IF k = 1 THEN [p \in frame.columns |-> missing] ELSE frame.data[k - 1]]]

\* strev = scaled_lagged_position.mul(ret).sum(axis=1, min_count=1) of row k:
\* all weights of a row share the volatility of row k - 2
strev_row(position, vol, ret, k) ==
    LET v == shift_factor(shift_factor(vol)).data[k]
        lagged == shift_frame(position, NaNF)
        infs == {Sign(lagged.data[k][p]) * Sign(FracOf(ret.data[k][p])) :
                    p \in {c \in lagged.columns :
                             /\ lagged.data[k][c] # NaNF
                             /\ lagged.data[k][c][1] # 0
                             /\ notnull(ret.data[k][c])
                             /\ ret.data[k][c] # 0}}
    IN IF v = NaNF THEN SNaN
       ELSE IF v[1] = 0
            THEN (IF Cardinality(infs) = 1 THEN <<CHOOSE x \in infs : TRUE, 1, 0>> ELSE SNaN)
       ELSE scale(weighted_sum(lagged, ret, k), v)

strev_of(position, vol, ret) ==
    [index |-> position.index,
     data |-> [k \in 1..Len(position.index) |-> strev_row(position, vol, ret, k)]]

\* ------------------------------- replication of the Fama-French STREV factor
\* (df has index (permno, date) and the columns exchcd, me, ret)
\* df.loc[df['exchcd']==1][col].dropna() of one date
nyse_values(df, col, d) ==
    LET rows == SelectSeq(df, LAMBDA r : r["date"] = d /\ r["exchcd"] = 1 /\ notnull(r[col]))
    IN [i \in 1..Len(rows) |-> rows[i][col]]

\* grp.apply(lambda x: np.percentile(x, pct)) at date d, in hundredths; a date
\* without NYSE values is not in the result
nyse_percentile(df, col, pct, d) ==
    LET x == nyse_values(df, col, d)
    IN IF x = <<>> THEN NaN ELSE Percentile100(x, pct)

\* breakpoints = pd.DataFrame({'me_p50': ..., 'ret_p30': ..., 'ret_p70': ...});
\* me_pct is the percentile the cell passes for me_p50
breakpoints_of(df, me_pct) ==
    [d \in {df[i]["date"] : i \in 1..Len(df)} |->
        [me_p50 |-> nyse_percentile(df, "me", me_pct, d),
         ret_p30 |-> nyse_percentile(df, "ret", 30, d),
         ret_p70 |-> nyse_percentile(df, "ret", 70, d)]]

\* df = df.merge(breakpoints, left_on='date', right_index=True, how='left')
merge_breakpoints(df, breakpoints) ==
    [i \in 1..Len(df) |->
        [c \in (DOMAIN df[i]) \cup {"me_p50", "ret_p30", "ret_p70"} |->
            IF c \in DOMAIN df[i] THEN df[i][c] ELSE breakpoints[df[i]["date"]][c]]]

\* df['portfolio'] = ''; df.loc[..., 'portfolio'] = 'small_losers'; ...
portfolio_of(r) ==
    LET p1 == IF below(r["ret"], r["ret_p30"]) /\ below(r["me"], r["me_p50"])
              THEN "small_losers" ELSE ""
        p2 == IF below(r["ret"], r["ret_p30"]) /\ above(r["me"], r["me_p50"])
              THEN "big_losers" ELSE p1
        p3 == IF above(r["ret"], r["ret_p70"]) /\ below(r["me"], r["me_p50"])
              THEN "small_winners" ELSE p2
    IN IF above(r["ret"], r["ret_p70"]) /\ above(r["me"], r["me_p50"])
       THEN "big_winners" ELSE p3

assign_portfolios(df) == SetCol(df, "portfolio", [i \in 1..Len(df) |-> portfolio_of(df[i])])

\* df.groupby('permno')[col].shift(1): the value of the stock's previous row
shift_permno(df, col, missing) ==
    [i \in 1..Len(df) |->
        LET prev == {j \in 1..(i - 1) : df[j]["permno"] = df[i]["permno"]}
        IN IF prev = {} THEN missing ELSE df[Max(prev)][col]]

\* df['Lme'], df['Lportfolio'], df['Lme_x_ret']; a missing Lportfolio is "nan"
add_lags(df) ==
    LET d1 == SetCol(df, "Lme", shift_permno(df, "me", NaN))
        d2 == SetCol(d1, "Lportfolio", shift_permno(d1, "portfolio", "nan"))
    IN SetCol(d2, "Lme_x_ret", [i \in 1..Len(d2) |-> Mul(d2[i]["Lme"], d2[i]["ret"])])

\* the rows of one (date, Lportfolio) group
lagged_members(df, d, g) == SelectSeq(df, LAMBDA r : r["date"] = d /\ r["Lportfolio"] = g)

\* groupby(...)[col].sum(min_count=1) of one group: missing values are skipped
sum_min_count(rows, col) ==
    LET obs == SelectSeq(rows, LAMBDA r : notnull(r[col]))
    IN IF obs = <<>> THEN NaN ELSE SumSeq([i \in 1..Len(obs) |-> obs[i][col]])

\* sum(Lme * ret) / sum(Lme), both sums over the members that have a return
vw_return_same_rows(df, d, g) ==
    LET m == SelectSeq(lagged_members(df, d, g), LAMBDA r : notnull(r["Lme_x_ret"]))
    IN IF m = <<>> THEN NaNF
       ELSE Frac(sum_min_count(m, "Lme_x_ret"), sum_min_count(m, "Lme"))

\* sums['Lme_x_ret'].div(sums['Lme']) of one group
vw_return(df, d, g) ==
    LET m == lagged_members(df, d, g)
        num == sum_min_count(m, "Lme_x_ret")
        den == sum_min_count(m, "Lme")
    IN IF isnull(num) \/ isnull(den) THEN NaNF ELSE Frac(num, den)

\* portfolio_returns = sums['Lme_x_ret'].div(sums['Lme']).unstack(level='Lportfolio')
\* (groupby drops the rows whose Lportfolio is missing)
vw_portfolio_returns(df) ==
    LET rows == {i \in 1..Len(df) : df[i]["Lportfolio"] # "nan"}
        index == SetToSortedSeq({df[i]["date"] : i \in rows})
        columns == {df[i]["Lportfolio"] : i \in rows}
    IN [index |-> index,
        columns |-> columns,
        data |-> [k \in 1..Len(index) |->
                    [g \in columns |->
                        IF lagged_members(df, index[k], g) = <<>> THEN NaNF
                        ELSE vw_return(df, index[k], g)]]]

\* df.groupby([date, 'Lportfolio'])['Lme'].transform('sum') of row i: missing
\* values count as 0; a row whose Lportfolio is missing gets no value
transform_sum(df, i) ==
    IF df[i]["Lportfolio"] = "nan" THEN NaN
    ELSE LET m == SelectSeq(lagged_members(df, df[i]["date"], df[i]["Lportfolio"]),
                            LAMBDA r : notnull(r["Lme"]))
         IN SumSeq([j \in 1..Len(m) |-> m[j]["Lme"]])

\* df['w_portfolio'] = df['Lme'] / ...transform('sum')
w_portfolio(df, i) ==
    IF isnull(df[i]["Lme"]) \/ isnull(transform_sum(df, i)) THEN NaNF
    ELSE Frac(df[i]["Lme"], transform_sum(df, i))

\* mutant of multipliers: the two legs are not halved
multipliers_whole(g) ==
    CASE g = "small_winners" -> <<-1, 1>>
      [] g = "small_losers" -> <<1, 1>>
      [] g = "big_winners" -> <<-1, 1>>
      [] g = "big_losers" -> <<1, 1>>
      [] OTHER -> NaNF

\* multipliers = {'small_winners': -(1/2), 'small_losers': (1/2), ...}
multipliers(g) ==
    CASE g = "small_winners" -> <<-1, 2>>
      [] g = "small_losers" -> <<1, 2>>
      [] g = "big_winners" -> <<-1, 2>>
      [] g = "big_losers" -> <<1, 2>>
      [] OTHER -> NaNF

\* df['w'] = df['Lportfolio'].map(multipliers) * df['w_portfolio']
add_weights(df) ==
    LET d1 == SetCol(df, "w_portfolio", [i \in 1..Len(df) |-> w_portfolio(df, i)])
    IN SetCol(d1, "w", [i \in 1..Len(d1) |->
                          FracMul(multipliers(d1[i]["Lportfolio"]), d1[i]["w_portfolio"])])

\* frame.fillna(0)
fillna0(frame) ==
    [index |-> frame.index,
     columns |-> frame.columns,
     data |-> [k \in 1..Len(frame.index) |->
                 [p \in frame.columns |->
                     IF frame.data[k][p] = NaNF THEN <<0, 1>> ELSE frame.data[k][p]]]]

\* weights = df['w'].unstack(level='permno').fillna(0)
weights_of(df) == fillna0(unstack_permno(df, "w", NaNF))

\* ------------------- decile strategy (Lectures/Topic2_WorkingWithDataframes)
\* (df has index (permno, date) and the column ret)
\* df['ret'].dropna() of one date
date_values(df, col, d) ==
    LET rows == SelectSeq(df, LAMBDA r : r["date"] = d /\ notnull(r[col]))
    IN [i \in 1..Len(rows) |-> rows[i][col]]

\* breakpoints = pd.DataFrame({'p10': p10, 'p90': p90}), in hundredths; a date
\* without returns is not in the result
decile_breakpoints(df) ==
    [d \in {df[i]["date"] : i \in 1..Len(df)} |->
        LET x == date_values(df, "ret", d)
        IN [p10 |-> IF x = <<>> THEN NaN ELSE Percentile100(x, 10),
            p90 |-> IF x = <<>> THEN NaN ELSE Percentile100(x, 90)]]

\* df = df.merge(breakpoints, left_on='date', right_index=True, how='left')
merge_deciles(df, breakpoints) ==
    [i \in 1..Len(df) |->
        [c \in (DOMAIN df[i]) \cup {"p10", "p90"} |->
            IF c \in DOMAIN df[i] THEN df[i][c] ELSE breakpoints[df[i]["date"]][c]]]

\* df['ret'] >= df['p90'] (False when either is missing)
at_least(value, bp100) == notnull(value) /\ notnull(bp100) /\ 100 * value >= bp100

\* df['long'], df['short'], df['position']
add_flags(df) ==
    LET d1 == SetCol(df, "long", [i \in 1..Len(df) |->
                        IF below(df[i]["ret"], df[i]["p10"]) THEN 1 ELSE 0])
        d2 == SetCol(d1, "short", [i \in 1..Len(d1) |->
                        IF at_least(d1[i]["ret"], d1[i]["p90"]) THEN 1 ELSE 0])
    IN SetCol(d2, "position", [i \in 1..Len(d2) |-> d2[i]["long"] - d2[i]["short"]])

\* mutant of ns_of: the number of rows of the month instead of the flagged ones
ns_rows(df) ==
    [d \in {df[i]["date"] : i \in 1..Len(df)} |->
        LET rows == SelectSeq(df, LAMBDA r : r["date"] = d)
        IN [long |-> Len(rows), short |-> Len(rows)]]

\* ns = df[['long','short']].groupby(level='date').sum()
ns_of(df) ==
    [d \in {df[i]["date"] : i \in 1..Len(df)} |->
        LET rows == SelectSeq(df, LAMBDA r : r["date"] = d)
        IN [long |-> SumSeq([i \in 1..Len(rows) |-> rows[i]["long"]]),
            short |-> SumSeq([i \in 1..Len(rows) |-> rows[i]["short"]])]]

\* weights = df[['long','short']] / ns : ns is aligned on the date level
decile_weights(df, ns) ==
    [i \in 1..Len(df) |->
        [permno |-> df[i]["permno"], date |-> df[i]["date"],
         long |-> Frac(df[i]["long"], ns[df[i]["date"]]["long"]),
         short |-> Frac(df[i]["short"], ns[df[i]["date"]]["short"])]]

\* ------------ covariance shrinkage (Lectures/Topic5_PortfolioOptimization)
\* (df is a sequence of rows, a row a function from column name to return)
\* the rows on which both columns are observed (pairwise deletion in df.cov())
both_observed(df, a, b) == SelectSeq(df, LAMBDA r : notnull(r[a]) /\ notnull(r[b]))

\* the mean of column a over rows
col_mean(rows, a) == Frac(SumSeq([t \in 1..Len(rows) |-> rows[t][a]]), Len(rows))

\* df.cov() of columns a and b: sum of products of deviations / (n - 1)
sample_cov(df, a, b) ==
    LET rows == both_observed(df, a, b)
        n == Len(rows)
        ma == col_mean(rows, a)
        mb == col_mean(rows, b)
    IN IF n < 2 THEN NaNF
       ELSE FracMul(FracSum([t \in 1..n |->
                        FracMul(FracSub(<<rows[t][a], 1>>, ma),
                                FracSub(<<rows[t][b], 1>>, mb))]),
                    <<1, n - 1>>)

\* cov = df.cov()
cov_of(df) ==
    [a \in DOMAIN df[1] |-> [b \in DOMAIN df[1] |-> sample_cov(df, a, b)]]

\* mutant of diagonal_mask: no element is masked
diagonal_mask_none(a, b) == FALSE

\* diagonal_mask = np.eye(len(cov), dtype=bool)
diagonal_mask(a, b) == a = b

\* 0 <= shrink_pct <= 1
valid_shrink(shrink_pct) ==
    FracLeq(<<0, 1>>, shrink_pct) /\ FracLeq(shrink_pct, <<1, 1>>)

\* compute_cov_matrix(df, shrink_pct) for a valid shrink_pct:
\* cov.values[~diagonal_mask] *= (1 - shrink_pct) writes into cov
compute_cov_matrix(df, shrink_pct) ==
    LET cov == cov_of(df)
    IN IF shrink_pct[1] > 0
       THEN [a \in DOMAIN cov |-> [b \in DOMAIN cov |->
                IF diagonal_mask(a, b) THEN cov[a][b]
                ELSE FracMul(cov[a][b], FracSub(<<1, 1>>, shrink_pct))]]
       ELSE cov

\* ------------------------------------------ Compustat preparation for merging
cs_vars == <<"at", "sale", "cogs", "be">>

Keys(df) == {<<df[i]["PERMNO"], df[i]["date"]>> : i \in 1..Len(df)}

\* df.reindex(keys): the rows of df under the sorted keys, new keys all missing
reindex(df, keys) ==
    MkTable(keys,
            LAMBDA p, d :
                LET i == RowOf(df, p, d)
                IN IF i # 0 THEN df[i]
                ELSE [c \in {"PERMNO", "date"} \cup Range(cs_vars) |->
                        IF c = "PERMNO" THEN p ELSE IF c = "date" THEN d ELSE NaN])

\* combined_index = cs_index.union(crsp_index)
combined_index(cs, crsp) == Keys(cs) \cup Keys(crsp)

\* every month from the first to the last date of each firm
new_index(keys) ==
    LET firms == {key[1] : key \in keys}
        min_date == [p \in firms |-> Min({key[2] : key \in {k2 \in keys : k2[1] = p}})]
        max_date == [p \in firms |-> Max({key[2] : key \in {k2 \in keys : k2[1] = p}})]
    IN UNION {{<<p, d>> : d \in min_date[p]..max_date[p]} : p \in firms}

\* shift(6): the report lag in months
ShiftMonths == 6
\* ffill(limit=23)
FillLimit == 23

\* df.groupby(level='PERMNO').shift(6): each firm's rows move down six rows
group_shift(df, n) ==
    [i \in 1..Len(df) |->
        [c \in DOMAIN df[i] |->
            IF c \in {"PERMNO", "date"} THEN df[i][c]
            ELSE IF i - n >= 1 /\ df[i - n]["PERMNO"] = df[i]["PERMNO"]
                 THEN df[i - n][c] ELSE NaN]]

\* the last row at or before i whose column c is not missing, 0 if none
LastValid(df, c, i) ==
    LET S == {j \in 1..i : notnull(df[j][c])}
    IN IF S = {} THEN 0 ELSE CHOOSE j \in S : \A j2 \in (j + 1)..i : isnull(df[j2][c])

\* frame.ffill(limit=n): in each column a value is carried down the rows of
\* the frame over at most n consecutive missing rows
ffill(df, n) ==
    [i \in 1..Len(df) |->
        [c \in DOMAIN df[i] |->
            IF notnull(df[i][c]) THEN df[i][c]
            ELSE LET j == LastValid(df, c, i)
                 IN IF j # 0 /\ i - j <= n THEN df[j][c] ELSE NaN]]

\* compustat.groupby(level='PERMNO').shift(6).ffill(limit=23)
lag_and_fill(df) == ffill(group_shift(df, ShiftMonths), FillLimit)

\* cs_crsp.merge(compustat, left_index=True, right_index=True, how='left')
merge_left(crsp, cs) ==
    [i \in 1..Len(crsp) |->
        [c \in (DOMAIN crsp[i]) \cup Range(cs_vars) |->
            IF c \in DOMAIN crsp[i] THEN crsp[i][c]
            ELSE LET j == RowOf(cs, crsp[i]["PERMNO"], crsp[i]["date"])
                 IN IF j = 0 THEN NaN ELSE cs[j][c]]]

\* ------------------------------------------------------- momentum signal
\* rolling(window=11)
Window == 11

\* s.rolling(window=n).sum(): the sum of the n values ending at each row of
\* the series, missing unless all n are there (min_periods is the window)
rolling_sum(s, n) ==
    [i \in 1..Len(s) |->
        IF i >= n /\ \A j \in (i - n + 1)..i : notnull(s[j])
        THEN SumSeq([j \in 1..n |-> s[i - n + j]])
        ELSE NaN]

\* s.shift(1): every value moves down one row of the series
shift_series(s) == [i \in 1..Len(s) |-> IF i = 1 THEN NaN ELSE s[i - 1]]

\* cs_crsp['ret'].rolling(window=11).sum(min_count=6).shift(1)
r12_2(df) == shift_series(rolling_sum(Col(df, "ret"), Window))

\* ---------------------------------------------------------------- inputs
\* market cap and return of the sample rows
SampleMe(p, d) == 1 + ((p + d) % 3) + (IF p = 3 THEN 2 ELSE 0)
SampleRet(p, d) == ((2 * p + 3 * d) % 7) - 2

SortValues == {NaN, 1, 2, 3}

\* every firm listed in every month; the signal varies, and the last firm may
\* be listed off the NYSE
ValueTables ==
    { MkTable(Firms \X Dates,
              LAMBDA p, d : [PERMNO |-> p, date |-> d, EXCHCD |-> ex[p],
                             ret |-> SampleRet(p, d), me |-> SampleMe(p, d),
                             beme |-> IF d = LastDate THEN 1 ELSE sig[<<p, d>>]]) :
        ex \in {e \in [Firms -> {1, 3}] : \A p \in 1..(NumFirms - 1) : e[p] = 1},
        sig \in [Firms \X (FirstDate..(LastDate - 1)) -> SortValues] }

TimingFirms == 1..NumTimingFirms
TimingDates == June..TimingLast
SampleSignal(p, d) == 1 + ((p + 2 * d) % 3)

\* NYSE firms listed in the months listed[p]
ListedTable(listed) ==
    MkTable({key \in TimingFirms \X TimingDates : key[2] \in listed[key[1]]},
            LAMBDA p, d : [PERMNO |-> p, date |-> d, EXCHCD |-> 1,
                           ret |-> SampleRet(p, d), me |-> SampleMe(p, d),
                           beme |-> SampleSignal(p, d)])

\* every firm listed in every month
CompleteTables == {ListedTable([p \in TimingFirms |-> TimingDates])}

\* some firm has no row in some month
GapTables ==
    { ListedTable(listed) :
        listed \in [TimingFirms -> (SUBSET TimingDates) \ {{}}]
                     \ {[p \in TimingFirms |-> TimingDates]} }

\* the table of the HML cell: every firm listed in every month from June on;
\* the June signal varies, the signal of the middle firms may be missing in
\* July, and the last firm may be listed off the NYSE
HmlFirms == 1..NumHmlFirms
HmlDates == June..HmlLast
HmlMe(p, d) == 2 * p - 1 + ((p + d) % 2)
HmlTables ==
    { MkTable(HmlFirms \X HmlDates,
              LAMBDA p, d : [PERMNO |-> p, date |-> d,
                             EXCHCD |-> IF p = NumHmlFirms THEN ex ELSE 1,
                             ret |-> SampleRet(p, d), me |-> HmlMe(p, d),
                             beme |-> IF d = June THEN sig[p]
                                      ELSE IF d = June + 1 /\ p \in nosignal THEN NaN
                                      ELSE SampleSignal(p, d)]) :
        ex \in {1, 3},
        sig \in [HmlFirms -> SortValues],
        nosignal \in SUBSET (2..(NumHmlFirms - 1)) }

\* the other values one cell of a row may hold
OtherValues(r, c) ==
    CASE c = "ret" -> {NaN, r[c] + 1}
      [] c = "me" -> {r[c] + 2}
      [] c = "beme" -> {NaN, 1, 2, 3} \ {r[c]}
      [] c = "EXCHCD" -> {3}

\* df with the value of column c of row i replaced by v
WithCell(df, i, c, v) == [df EXCEPT ![i] = [df[i] EXCEPT ![c] = v]]

\* the months around two successive Junes
AnnualDates == {June, June + 1, June + 11, June + 12, June + 13}

\* firms listed in some of these months; a firm's signal may be missing in the
\* second June
AnnualTables ==
    { MkTable({key \in TimingFirms \X AnnualDates : key[2] \in listed[key[1]]},
              LAMBDA p, d : [PERMNO |-> p, date |-> d, EXCHCD |-> 1,
                             ret |-> SampleRet(p, d), me |-> SampleMe(p, d),
                             beme |-> IF d = June + 12 /\ p \in nosignal THEN NaN
                                      ELSE SampleSignal(p, d)]) :
        listed \in [TimingFirms -> (SUBSET AnnualDates) \ {{}}],
        nosignal \in SUBSET TimingFirms }

\* fiscal-year ends (Decembers) on which a firm may file an annual report
FiscalYearEnds == {12 * y : y \in 1..NumReports}

\* the value a report of firm p for the fiscal year ending in month d carries
ReportValue(p, d) == 1000 * p + d

\* annual reports: per firm and fiscal year none, a full one, or one without be
ReportTables ==
    { MkTable({key \in TimingFirms \X FiscalYearEnds : filed[key] # "none"},
              LAMBDA p, d : [PERMNO |-> p, date |-> d,
                             at |-> ReportValue(p, d), sale |-> ReportValue(p, d),
                             cogs |-> ReportValue(p, d),
                             be |-> IF filed[<<p, d>>] = "nobe" THEN NaN
                                    ELSE ReportValue(p, d)]) :
        filed \in [TimingFirms \X FiscalYearEnds -> {"none", "full", "nobe"}] }

\* monthly CRSP rows of every firm from month 1 to its last month
CrspTables ==
    { MkTable({key \in TimingFirms \X (1..(12 * NumReports + 24)) : key[2] <= last[key[1]]},
              LAMBDA p, d : [PERMNO |-> p, date |-> d, EXCHCD |-> 1,
                             ret |-> SampleRet(p, d), me |-> SampleMe(p, d)]) :
        last \in [TimingFirms -> {12 * NumReports - 6, 12 * NumReports + 24}] }

\* firms listed from month 1 to their last month; one return may be missing
MomentumTables ==
    { MkTable({key \in TimingFirms \X (1..MomentumLast) : key[2] <= last[key[1]]},
              LAMBDA p, d : [PERMNO |-> p, date |-> d, EXCHCD |-> 1,
                             ret |-> IF <<p, d>> = gone THEN NaN ELSE SampleRet(p, d),
                             me |-> SampleMe(p, d)]) :
        last \in [TimingFirms -> {2, MomentumLast - 1, MomentumLast}],
        gone \in {<<0, 0>>} \cup (TimingFirms \X {1, MomentumLast - 2}) }

\* firms listed in every month 1..MomentumLast; the returns vary with seed
UmdFirms == 1..NumUmdFirms
UmdSeeds == 0..NumUmdSeeds
UmdRet(p, d, seed) == ((2 * p + 3 * d + seed * (p + d \div 2)) % 7) - 2
UmdTables ==
    { MkTable(UmdFirms \X (1..MomentumLast),
              LAMBDA p, d : [PERMNO |-> p, date |-> d,
                             EXCHCD |-> IF p = big THEN 3 ELSE 1,
                             ret |-> UmdRet(p, d, seed),
                             me |-> 1 + ((p + d * (1 + seed)) % 4)]) :
        seed \in UmdSeeds, big \in {0} \cup UmdFirms }

EmptyFrame == [index |-> <<>>, columns |-> {}, data |-> <<>>]
EmptySeries == [index |-> <<>>, data |-> <<>>]
NoCall == [fn |-> "none", id_col |-> "none"]

\* the crsp table of the reversal cells: monthly returns of a few stocks, one
\* row possibly absent
StrevStocks == 1..NumStrevStocks
StrevDates == 1..StrevLast
StrevRet(p, d, seed) == ((p * p + 3 * d + seed * p * d + (d \div 4)) % 5) - 2
StrevTables ==
    { MkTable({key \in StrevStocks \X StrevDates : key # absent},
              LAMBDA p, d : [permno |-> p, date |-> d, ret |-> StrevRet(p, d, seed)]) :
        seed \in {1, 2}, absent \in {<<0, 0>>, <<NumStrevStocks, 2>>} }
\* one month of any returns and one month of distinct returns
PosStocks == 1..NumPosStocks
PosValues == {NaN, -1, 0, 2}
PositionTables ==
    { MkTable(PosStocks \X {1, 2},
              LAMBDA p, d : [permno |-> p, date |-> d,
                             ret |-> IF d = 1 THEN r[p] ELSE NumPosStocks - 2 * p]) :
        r \in [PosStocks -> PosValues] }

\* the crsp table of the replication: stocks 1 and 2 are NYSE stocks with fixed
\* size and return; every other stock is of one of FFKinds in a month
FFStocks == 1..NumFFStocks
FFDates == 1..FFLast
FFKinds == 0..6
FFMe(kind) == <<2, 5, 1, 4, 2, 3, NaN>>[kind + 1]
FFRet(kind) == <<1, 2, 9, 8, 5, NaN, 1>>[kind + 1]
FFKindAt(first, p, d) == (first[p] + (d - 1) * (p - 1)) % 7
FFTables ==
    { MkTable(FFStocks \X FFDates,
              LAMBDA p, d :
                 IF p <= 2
                 THEN [permno |-> p, date |-> d, exchcd |-> 1,
                       me |-> 2 * p - 1, ret |-> 10 * (p - 1)]
                 ELSE [permno |-> p, date |-> d, exchcd |-> 3,
                       me |-> FFMe(FFKindAt(first, p, d)),
                       ret |-> FFRet(FFKindAt(first, p, d))]) :
        first \in [3..NumFFStocks -> FFKinds] }
EmptyFF ==
    [df |-> <<>>, me_pct |-> 0, breakpoints |-> <<>>, portfolio_returns |-> EmptyFrame,
     weights |-> EmptyFrame]

EmptyDecile == [df |-> <<>>, breakpoints |-> <<>>, ns |-> <<>>, weights |-> <<>>]

\* monthly returns of a few assets: the first is fixed, the last may have a
\* missing month, the others take any of ReturnValues
Assets == 1..NumAssets
Periods == 1..NumPeriods
ReturnValues == {0, 1, 3}
AssetName(a) == <<"a1", "a2", "a3", "a4", "a5">>[a]
ReturnTables ==
    { [t \in Periods |->
        [c \in {AssetName(a) : a \in Assets} |->
            LET a == CHOOSE x \in Assets : AssetName(x) = c
            IN IF a = 1 THEN (t * t) % 5
               ELSE IF a = NumAssets
                    THEN (IF t = gone THEN NaN ELSE (3 * t) % 4)
               ELSE r[a, t]]] :
        r \in [(2..(NumAssets - 1)) \X Periods -> ReturnValues], gone \in {0, 2} }
ShrinkValues == {<<-1, 5>>, <<0, 1>>, <<1, 5>>, <<1, 2>>, <<1, 1>>, <<6, 5>>}
EmptyCov == [df |-> <<>>, shrink_pct |-> <<0, 1>>, cov_matrix |-> <<>>]

EmptyStrev ==
    [df |-> <<>>, position |-> EmptyFrame, ret |-> EmptyFrame,
     lagged_position |-> EmptyFrame, portfolio_return |-> EmptySeries,
     realized_vol |-> EmptySeries, scaled_position |-> EmptyFrame,
     scaled_lagged_position |-> EmptyFrame, strev |-> EmptySeries]


Percentiles(col) == IF col = "me" THEN <<50>> ELSE <<30, 70>>
\* sortvar + '_group'
IdCol(col) ==
    CASE col = "me" -> "me_group"
      [] col = "beme" -> "beme_group"
      [] col = "r12_2" -> "r12_2_group"

\* ---------------------------------------------------------------- the script
\* the HML cell before its sort loop (the loop passes annual=True)
Init ==
    /\ cs_crsp \in HmlTables
    /\ sort_variables = <<"me", "beme">>
    /\ annual = TRUE
    /\ loop_i = 1
    /\ portfolio_returns = EmptyFrame
    /\ hml = EmptySeries
    /\ pc = "sort"
    /\ lastcall = NoCall
    /\ alt = <<>>
    /\ alt_returns = EmptyFrame
    /\ compustat = <<>>
    /\ reports = <<>>
    /\ umd = EmptySeries
    /\ nb = <<>>
    /\ nb_alt = <<>>

\* portfolio_sort called with annual=False (as the momentum cell calls it) or
\* annual=True on a table whose signal varies in every month
InitSort ==
    /\ cs_crsp \in ValueTables
    /\ sort_variables = <<"me", "beme">>
    /\ annual \in BOOLEAN
    /\ loop_i = 1
    /\ portfolio_returns = EmptyFrame
    /\ hml = EmptySeries
    /\ pc = "sort"
    /\ lastcall = NoCall
    /\ alt = <<>>
    /\ alt_returns = EmptyFrame
    /\ compustat = <<>>
    /\ reports = <<>>
    /\ umd = EmptySeries
    /\ nb = <<>>
    /\ nb_alt = <<>>

\* a table run beside a copy that differs in one cell
InitPair(annual_, tables) ==
    /\ annual = annual_
    /\ cs_crsp \in tables
    /\ \E i \in 1..Len(cs_crsp) : \E c \in {"ret", "me", "beme", "EXCHCD"} :
        \E v \in OtherValues(cs_crsp[i], c) : alt = WithCell(cs_crsp, i, c, v)
    /\ sort_variables = <<"me", "beme">>
    /\ loop_i = 1
    /\ portfolio_returns = EmptyFrame
    /\ hml = EmptySeries
    /\ pc = "sort"
    /\ lastcall = NoCall
    /\ alt_returns = EmptyFrame
    /\ compustat = <<>>
    /\ reports = <<>>
    /\ umd = EmptySeries
    /\ nb = <<>>
    /\ nb_alt = <<>>

\* annual and monthly sorts of tables without and with missing rows
InitTiming ==
    \/ InitPair(TRUE, CompleteTables)
    \/ InitPair(FALSE, CompleteTables)
    \/ InitPair(TRUE, GapTables)
    \/ InitPair(FALSE, GapTables)

\* the annual (June) sorts of the HML script
InitAnnual ==
    /\ annual = TRUE
    /\ cs_crsp \in AnnualTables
    /\ alt = <<>>
    /\ sort_variables = <<"me", "beme">>
    /\ loop_i = 1
    /\ portfolio_returns = EmptyFrame
    /\ hml = EmptySeries
    /\ pc = "sort"
    /\ lastcall = NoCall
    /\ alt_returns = EmptyFrame
    /\ compustat = <<>>
    /\ reports = <<>>
    /\ umd = EmptySeries
    /\ nb = <<>>
    /\ nb_alt = <<>>

\* the Compustat cell: annual reports and the monthly CRSP table to merge them to
InitCompustat ==
    /\ compustat \in ReportTables
    /\ reports = compustat
    /\ cs_crsp \in CrspTables
    /\ pc = "reindex"
    /\ sort_variables = <<>>
    /\ annual = FALSE
    /\ loop_i = 1
    /\ portfolio_returns = EmptyFrame
    /\ hml = EmptySeries
    /\ lastcall = NoCall
    /\ alt = <<>>
    /\ alt_returns = EmptyFrame
    /\ umd = EmptySeries
    /\ nb = <<>>
    /\ nb_alt = <<>>

\* compustat = compustat.reindex(combined_index); compustat = compustat.reindex(new_index)
ReindexCompustat ==
    /\ pc = "reindex"
    /\ compustat' = reindex(reindex(compustat, combined_index(compustat, cs_crsp)),
                            new_index(combined_index(compustat, cs_crsp)))
    /\ pc' = "lag"
    /\ UNCHANGED <<cs_crsp, sort_variables, annual, loop_i, portfolio_returns, hml,
                   lastcall, alt, alt_returns, reports, umd, nb, nb_alt>>

\* compustat = compustat.groupby(level='PERMNO').shift(6).ffill(limit=23)
LagAndFill ==
    /\ pc = "lag"
    /\ compustat' = lag_and_fill(compustat)
    /\ pc' = "merge"
    /\ UNCHANGED <<cs_crsp, sort_variables, annual, loop_i, portfolio_returns, hml,
                   lastcall, alt, alt_returns, reports, umd, nb, nb_alt>>

\* cs_crsp = cs_crsp.merge(compustat, left_index=True, right_index=True, how='left')
MergeCrsp ==
    /\ pc = "merge"
    /\ cs_crsp' = merge_left(cs_crsp, compustat)
    /\ pc' = "merged"
    /\ UNCHANGED <<sort_variables, annual, loop_i, portfolio_returns, hml,
                   lastcall, alt, alt_returns, compustat, reports, umd, nb, nb_alt>>

NextCompustat == ReindexCompustat \/ LagAndFill \/ MergeCrsp

\* the momentum cell
InitMomentum ==
    /\ cs_crsp \in MomentumTables
    /\ sort_variables = <<"me", "r12_2">>
    /\ annual = FALSE
    /\ pc = "signal"
    /\ loop_i = 1
    /\ portfolio_returns = EmptyFrame
    /\ hml = EmptySeries
    /\ lastcall = NoCall
    /\ alt = <<>>
    /\ alt_returns = EmptyFrame
    /\ compustat = <<>>
    /\ reports = <<>>
    /\ umd = EmptySeries
    /\ nb = <<>>
    /\ nb_alt = <<>>

\* cs_crsp['r12_2'] = cs_crsp['ret'].rolling(window=11).sum(min_count=6).shift(1)
MomentumSignal ==
    /\ pc = "signal"
    /\ cs_crsp' = SetCol(cs_crsp, "r12_2", r12_2(cs_crsp))
    /\ pc' = "sort"
    /\ UNCHANGED <<sort_variables, annual, loop_i, portfolio_returns, hml, lastcall,
                   alt, alt_returns, compustat, reports, umd, nb, nb_alt>>

\* for sortvar in sort_variables: cs_crsp = portfolio_sort(df=cs_crsp, ...)
PortfolioSort ==
    /\ pc = "sort"
    /\ LET col == sort_variables[loop_i]
       IN /\ cs_crsp' = portfolio_sort(cs_crsp, col, TRUE, Percentiles(col), IdCol(col), annual)
          /\ alt' = portfolio_sort(alt, col, TRUE, Percentiles(col), IdCol(col), annual)
          /\ lastcall' = [fn |-> "portfolio_sort", id_col |-> IdCol(col)]
    /\ loop_i' = loop_i + 1
    /\ pc' = IF loop_i = Len(sort_variables) THEN "returns" ELSE "sort"
    /\ UNCHANGED <<sort_variables, annual, portfolio_returns, hml, alt_returns,
                   compustat, reports, umd, nb, nb_alt>>

sort_groups == [j \in 1..Len(sort_variables) |-> IdCol(sort_variables[j])]

\* portfolio_returns = compute_portfolio_returns(cs_crsp, sort_groups=sort_groups)
ComputePortfolioReturns ==
    /\ pc = "returns"
    /\ portfolio_returns' = compute_portfolio_returns(cs_crsp, sort_groups)
    /\ cs_crsp' = add_retnm(cs_crsp)
    /\ alt_returns' = compute_portfolio_returns(alt, sort_groups)
    /\ alt' = add_retnm(alt)
    /\ lastcall' = [fn |-> "compute_portfolio_returns", id_col |-> "none"]
    /\ pc' = "factor"
    /\ UNCHANGED <<sort_variables, annual, loop_i, hml, compustat, reports, umd, nb, nb_alt>>

Corners == {<<1, 3>>, <<2, 3>>, <<1, 1>>, <<2, 1>>}

\* hml = ... ; .loc raises KeyError when a corner portfolio never occurs
Hml ==
    /\ pc = "factor"
    /\ IF Corners \subseteq portfolio_returns.columns
       THEN hml' = hml_of(portfolio_returns) /\ pc' = "done"
       ELSE hml' = hml /\ pc' = "KeyError"
    /\ UNCHANGED <<cs_crsp, sort_variables, annual, loop_i, portfolio_returns, lastcall,
                   alt, alt_returns, compustat, reports, umd, nb, nb_alt>>

Next == PortfolioSort \/ ComputePortfolioReturns \/ Hml

Spec == Init /\ [][Next]_vars
SpecSort == InitSort /\ [][Next]_vars
SpecTiming == InitTiming /\ [][Next]_vars
SpecAnnual == InitAnnual /\ [][Next]_vars
SpecCompustat == InitCompustat /\ [][NextCompustat]_vars

NextMomentum == MomentumSignal \/ PortfolioSort \/ ComputePortfolioReturns
SpecMomentum == InitMomentum /\ [][NextMomentum]_vars

\* the momentum cell on tables in which every firm is listed every month
InitUmd ==
    /\ cs_crsp \in UmdTables
    /\ sort_variables = <<"me", "r12_2">>
    /\ annual = FALSE
    /\ pc = "signal"
    /\ loop_i = 1
    /\ portfolio_returns = EmptyFrame
    /\ hml = EmptySeries
    /\ lastcall = NoCall
    /\ alt = <<>>
    /\ alt_returns = EmptyFrame
    /\ compustat = <<>>
    /\ reports = <<>>
    /\ umd = EmptySeries
    /\ nb = <<>>
    /\ nb_alt = <<>>

\* umd = ... ; umd = umd.shift(1); .loc raises KeyError when a corner never occurs
Umd ==
    /\ pc = "factor"
    /\ IF Corners \subseteq portfolio_returns.columns
       THEN umd' = umd_of(portfolio_returns) /\ pc' = "done"
       ELSE umd' = umd /\ pc' = "KeyError"
    /\ UNCHANGED <<cs_crsp, sort_variables, annual, loop_i, portfolio_returns, lastcall,
                   alt, alt_returns, compustat, reports, hml, nb, nb_alt>>

NextUmd == MomentumSignal \/ PortfolioSort \/ ComputePortfolioReturns \/ Umd
SpecUmd == InitUmd /\ [][NextUmd]_vars

\* the reversal cells run on a table and on a copy with one return changed
InitStrev ==
    /\ \E df \in StrevTables : \E i \in 1..Len(df) : \E v \in {NaN, 3, df[i]["ret"] + 1} :
        /\ nb = [EmptyStrev EXCEPT !.df = df]
        /\ nb_alt = [EmptyStrev EXCEPT !.df = WithCell(df, i, "ret", v)]
    /\ pc = "position"
    /\ cs_crsp = <<>>
    /\ sort_variables = <<>>
    /\ annual = FALSE
    /\ loop_i = 1
    /\ portfolio_returns = EmptyFrame
    /\ hml = EmptySeries
    /\ lastcall = NoCall
    /\ alt = <<>>
    /\ alt_returns = EmptyFrame
    /\ compustat = <<>>
    /\ reports = <<>>
    /\ umd = EmptySeries

FactorVars == <<cs_crsp, sort_variables, annual, loop_i, portfolio_returns, hml,
                lastcall, alt, alt_returns, compustat, reports, umd>>

\* df['position'] = df.groupby(level='date')['ret'].transform(...)
position_cell(g) == [g EXCEPT !.df = with_position(g.df)]
PositionCell ==
    /\ pc = "position"
    /\ nb' = position_cell(nb)
    /\ nb_alt' = position_cell(nb_alt)
    /\ pc' = "unstack"
    /\ UNCHANGED FactorVars

\* position = df['position'].unstack(level='permno'); ret = df['ret'].unstack(...)
unstack_cell(g) ==
    [g EXCEPT !.position = unstack_permno(g.df, "position", NaNF),
              !.ret = unstack_permno(g.df, "ret", NaN)]
UnstackCell ==
    /\ pc = "unstack"
    /\ nb' = unstack_cell(nb)
    /\ nb_alt' = unstack_cell(nb_alt)
    /\ pc' = "lag"
    /\ UNCHANGED FactorVars

\* lagged_position = position.shift(1)
lag_cell(g) == [g EXCEPT !.lagged_position = shift_frame(g.position, NaNF)]
LagCell ==
    /\ pc = "lag"
    /\ nb' = lag_cell(nb)
    /\ nb_alt' = lag_cell(nb_alt)
    /\ pc' = "return"
    /\ UNCHANGED FactorVars

\* portfolio_return = lagged_position.mul(ret).sum(axis=1, min_count=1)
return_cell(g) ==
    [g EXCEPT !.portfolio_return = portfolio_return_of(g.lagged_position, g.ret)]
ReturnCell ==
    /\ pc = "return"
    /\ nb' = return_cell(nb)
    /\ nb_alt' = return_cell(nb_alt)
    /\ pc' = "scale"
    /\ UNCHANGED FactorVars

\* realized_vol, scaled_position, scaled_lagged_position, strev
scale_cell(g) ==
    LET vol == realized_vol(g.portfolio_return)
        scaled == scaled_position_of(g.position, vol)
    IN [g EXCEPT !.realized_vol = vol,
                 !.scaled_position = scaled,
                 !.scaled_lagged_position = shift_frame(scaled, SNaN),
                 !.strev = strev_of(g.position, vol, g.ret)]
ScaleCell ==
    /\ pc = "scale"
    /\ nb' = scale_cell(nb)
    /\ nb_alt' = scale_cell(nb_alt)
    /\ pc' = "scaled"
    /\ UNCHANGED FactorVars

NextStrev == PositionCell \/ UnstackCell \/ LagCell \/ ReturnCell \/ ScaleCell
SpecStrev == InitStrev /\ [][NextStrev]_vars

\* either copy of the position cell, on a freshly loaded table
InitPosition ==
    /\ \E df \in PositionTables : nb = [EmptyStrev EXCEPT !.df = df]
    /\ nb_alt = EmptyStrev
    /\ pc \in {"position", "pct_position"}
    /\ cs_crsp = <<>>
    /\ sort_variables = <<>>
    /\ annual = FALSE
    /\ loop_i = 1
    /\ portfolio_returns = EmptyFrame
    /\ hml = EmptySeries
    /\ lastcall = NoCall
    /\ alt = <<>>
    /\ alt_returns = EmptyFrame
    /\ compustat = <<>>
    /\ reports = <<>>
    /\ umd = EmptySeries

\* df['position'] = ....transform(lambda x: (x.rank(pct=True) - 0.5) * -2)
pct_position_cell(g) == [g EXCEPT !.df = with_pct_position(g.df)]
PctPositionCell ==
    /\ pc = "pct_position"
    /\ nb' = pct_position_cell(nb)
    /\ nb_alt' = pct_position_cell(nb_alt)
    /\ pc' = "pct_unstack"
    /\ UNCHANGED FactorVars

NextPosition == PositionCell \/ PctPositionCell
SpecPosition == InitPosition /\ [][NextPosition]_vars

\* either copy of the replication cells, on a freshly loaded table; the first
\* copy passes 50 and the second 10 to np.percentile for me_p50
InitFF ==
    /\ \E df \in FFTables : \E pct \in {50, 10} :
        nb = [EmptyFF EXCEPT !.df = df, !.me_pct = pct]
    /\ nb_alt = <<>>
    /\ pc = "breakpoints"
    /\ cs_crsp = <<>>
    /\ sort_variables = <<>>
    /\ annual = FALSE
    /\ loop_i = 1
    /\ portfolio_returns = EmptyFrame
    /\ hml = EmptySeries
    /\ lastcall = NoCall
    /\ alt = <<>>
    /\ alt_returns = EmptyFrame
    /\ compustat = <<>>
    /\ reports = <<>>
    /\ umd = EmptySeries

\* me_p50, ret_p30, ret_p70, breakpoints
BreakpointsCell ==
    /\ pc = "breakpoints"
    /\ nb' = [nb EXCEPT !.breakpoints = breakpoints_of(nb.df, nb.me_pct)]
    /\ pc' = "merge_breakpoints"
    /\ UNCHANGED <<FactorVars, nb_alt>>

\* df = df.merge(breakpoints, left_on='date', right_index=True, how='left')
MergeBreakpointsCell ==
    /\ pc = "merge_breakpoints"
    /\ nb' = [nb EXCEPT !.df = merge_breakpoints(nb.df, nb.breakpoints)]
    /\ pc' = "assign"
    /\ UNCHANGED <<FactorVars, nb_alt>>

\* df['portfolio'] = ...
AssignCell ==
    /\ pc = "assign"
    /\ nb' = [nb EXCEPT !.df = assign_portfolios(nb.df)]
    /\ pc' = "vw_returns"
    /\ UNCHANGED <<FactorVars, nb_alt>>

\* Lme, Lportfolio, Lme_x_ret, sums, portfolio_returns
VwReturnsCell ==
    /\ pc = "vw_returns"
    /\ nb' = [nb EXCEPT !.df = add_lags(nb.df),
                        !.portfolio_returns = vw_portfolio_returns(add_lags(nb.df))]
    /\ pc' = "weights"
    /\ UNCHANGED <<FactorVars, nb_alt>>

\* w_portfolio, multipliers, w, weights
WeightsCell ==
    /\ pc = "weights"
    /\ nb' = [nb EXCEPT !.df = add_weights(nb.df),
                        !.weights = weights_of(add_weights(nb.df))]
    /\ pc' = "trades"
    /\ UNCHANGED <<FactorVars, nb_alt>>

NextFF == BreakpointsCell \/ MergeBreakpointsCell \/ AssignCell \/ VwReturnsCell
          \/ WeightsCell
SpecFF == InitFF /\ [][NextFF]_vars

\* the decile cells on a freshly loaded table
InitDecile ==
    /\ \E df \in PositionTables : nb = [EmptyDecile EXCEPT !.df = df]
    /\ nb_alt = <<>>
    /\ pc = "deciles"
    /\ cs_crsp = <<>>
    /\ sort_variables = <<>>
    /\ annual = FALSE
    /\ loop_i = 1
    /\ portfolio_returns = EmptyFrame
    /\ hml = EmptySeries
    /\ lastcall = NoCall
    /\ alt = <<>>
    /\ alt_returns = EmptyFrame
    /\ compustat = <<>>
    /\ reports = <<>>
    /\ umd = EmptySeries

\* p10, p90, breakpoints
DecileBreakpointsCell ==
    /\ pc = "deciles"
    /\ nb' = [nb EXCEPT !.breakpoints = decile_breakpoints(nb.df)]
    /\ pc' = "merge_deciles"
    /\ UNCHANGED <<FactorVars, nb_alt>>

\* df = df.merge(breakpoints, left_on='date', right_index=True, how='left')
DecileMergeCell ==
    /\ pc = "merge_deciles"
    /\ nb' = [nb EXCEPT !.df = merge_deciles(nb.df, nb.breakpoints)]
    /\ pc' = "flags"
    /\ UNCHANGED <<FactorVars, nb_alt>>

\* df['long'], df['short'], df['position']
FlagsCell ==
    /\ pc = "flags"
    /\ nb' = [nb EXCEPT !.df = add_flags(nb.df)]
    /\ pc' = "decile_weights"
    /\ UNCHANGED <<FactorVars, nb_alt>>

\* ns = ...; weights = df[['long','short']] / ns
DecileWeightsCell ==
    /\ pc = "decile_weights"
    /\ nb' = [nb EXCEPT !.ns = ns_of(nb.df),
                        !.weights = decile_weights(nb.df, ns_of(nb.df))]
    /\ pc' = "decile_done"
    /\ UNCHANGED <<FactorVars, nb_alt>>

NextDecile == DecileBreakpointsCell \/ DecileMergeCell \/ FlagsCell \/ DecileWeightsCell
SpecDecile == InitDecile /\ [][NextDecile]_vars

\* a call cov_matrix = compute_cov_matrix(train_data, shrink_pct)
InitCov ==
    /\ \E df \in ReturnTables : \E shrink \in ShrinkValues :
        nb = [EmptyCov EXCEPT !.df = df, !.shrink_pct = shrink]
    /\ nb_alt = <<>>
    /\ pc = "call"
    /\ cs_crsp = <<>>
    /\ sort_variables = <<>>
    /\ annual = FALSE
    /\ loop_i = 1
    /\ portfolio_returns = EmptyFrame
    /\ hml = EmptySeries
    /\ lastcall = NoCall
    /\ alt = <<>>
    /\ alt_returns = EmptyFrame
    /\ compustat = <<>>
    /\ reports = <<>>
    /\ umd = EmptySeries

\* cov_matrix = compute_cov_matrix(df, shrink_pct); ValueError when shrink_pct
\* is outside [0, 1]
ComputeCovMatrix ==
    /\ pc = "call"
    /\ IF valid_shrink(nb.shrink_pct)
       THEN /\ nb' = [nb EXCEPT !.cov_matrix = compute_cov_matrix(nb.df, nb.shrink_pct)]
            /\ pc' = "returned"
       ELSE /\ nb' = nb
            /\ pc' = "ValueError"
    /\ UNCHANGED <<FactorVars, nb_alt>>

NextCov == ComputeCovMatrix
SpecCov == InitCov /\ [][NextCov]_vars

\* ---------------------------------------------------------------- claims
HasCol(df, c) == df # <<>> /\ c \in DOMAIN df[1]

\* the breakpoints of date d for sort column col, in hundredths
Breaks(df, col, d) ==
    [j \in 1..Len(Percentiles(col)) |-> breakpoint(df, col, TRUE, Percentiles(col)[j], d)]

\* the group the claim gives a value v under breakpoints b (both defined)
BucketOf(v, b) ==
    IF 100 * v > b[Len(b)] THEN Len(b) + 1
    ELSE Min({j \in 1..Len(b) : 100 * v <= b[j]})

SortedCols == {sort_variables[j] : j \in 1..(loop_i - 1)}

\* C3: after a monthly sort on col every row with a value and defined
\* breakpoints is in the one group 1..k+1 its value falls in (group 1 up to b1,
\* group j in (b(j-1), bj], group k+1 above bk), rows without a value have no
\* group, and within a date a larger value never has a smaller group
C3_BucketAssignment ==
    ~annual =>
    \A col \in SortedCols :
        /\ \A d \in {cs_crsp[i]["date"] : i \in 1..Len(cs_crsp)} :
           LET b == Breaks(cs_crsp, col, d)
           IN \A i \in {j \in 1..Len(cs_crsp) : cs_crsp[j]["date"] = d} :
            LET r == cs_crsp[i]
            IN /\ isnull(r[col]) => isnull(r[IdCol(col)])
               /\ (notnull(r[col]) /\ NaN \notin Range(b)) =>
                     /\ \A j \in 1..(Len(b) - 1) : b[j] <= b[j + 1]
                     /\ r[IdCol(col)] \in 1..(Len(b) + 1)
                     /\ r[IdCol(col)] = BucketOf(r[col], b)
        /\ \A i, j \in 1..Len(cs_crsp) :
            (/\ cs_crsp[i]["date"] = cs_crsp[j]["date"]
             /\ notnull(cs_crsp[i][IdCol(col)]) /\ notnull(cs_crsp[j][IdCol(col)])
             /\ cs_crsp[i][col] > cs_crsp[j][col])
            => cs_crsp[i][IdCol(col)] >= cs_crsp[j][IdCol(col)]

\* a date with three different signal values sorted into the groups 1, 2, 3
C3_Witness ==
    /\ ~annual
    /\ "beme" \in SortedCols
    /\ \E d \in Dates :
        \A g \in 1..3 : \E i \in 1..Len(cs_crsp) :
            /\ cs_crsp[i]["date"] = d
            /\ cs_crsp[i]["beme_group"] = g
            /\ cs_crsp[i]["beme"] = g

RECURSIVE SumOver(_, _)
\* the sum of f over the finite set S
SumOver(S, f) ==
    IF S = {} THEN 0
    ELSE LET x == CHOOSE y \in S : TRUE IN f[x] + SumOver(S \ {x}, f)

Returned == pc \in {"factor", "done", "KeyError"}

\* the stocks of group g formed on date d that have market cap, next-month
\* return and all sort variables
Stocks(d, g) ==
    {i \in 1..Len(cs_crsp) :
        /\ cs_crsp[i]["date"] = d
        /\ \A j \in 1..Len(sort_groups) : cs_crsp[i][sort_groups[j]] = g[j]
        /\ notnull(cs_crsp[i]["me"]) /\ notnull(cs_crsp[i]["retnm"])
        /\ \A j \in 1..Len(sort_variables) : notnull(cs_crsp[i][sort_variables[j]])}

\* C4: every reported return is sum(me * retnm) / sum(me) over one and the same
\* set of stocks (the group's members with market cap, next-month return and
\* sort variables); the weights me / sum(me) are non-negative and sum to 1, so
\* the return lies between the smallest and the largest member return
C4_ValueWeighted ==
    Returned =>
    \A n \in 2..Len(portfolio_returns.index) : \A g \in portfolio_returns.columns :
        LET S == Stocks(portfolio_returns.index[n - 1], g)
            v == portfolio_returns.data[n][g]
            me == [i \in S |-> cs_crsp[i]["me"]]
            total == SumOver(S, me)
        IN IF S = {} THEN v = NaNF
           ELSE /\ v # NaNF
                /\ total > 0
                /\ \A i \in S : me[i] >= 0
                /\ v[1] * total =
                      v[2] * SumOver(S, [i \in S |-> me[i] * cs_crsp[i]["retnm"]])
                /\ \A i \in S : Frac(me[i], total)[1] >= 0
                /\ SumOver(S, [i \in S |-> me[i]]) = total
                /\ \E i \in S : FracLeq(<<cs_crsp[i]["retnm"], 1>>, v)
                /\ \E i \in S : FracLeq(v, <<cs_crsp[i]["retnm"], 1>>)
                /\ \A i \in S :
                      (\A j \in S : cs_crsp[i]["retnm"] <= cs_crsp[j]["retnm"])
                      => FracLeq(<<cs_crsp[i]["retnm"], 1>>, v)
                /\ \A i \in S :
                      (\A j \in S : cs_crsp[i]["retnm"] >= cs_crsp[j]["retnm"])
                      => FracLeq(v, <<cs_crsp[i]["retnm"], 1>>)

\* a reported return of a group of two stocks with different market caps and
\* different returns, strictly between the two
C4_Witness ==
    /\ Returned
    /\ \E n \in 2..Len(portfolio_returns.index) : \E g \in portfolio_returns.columns :
        LET S == Stocks(portfolio_returns.index[n - 1], g)
            v == portfolio_returns.data[n][g]
        IN /\ v # NaNF
           /\ \E i, j \in S :
                /\ cs_crsp[i]["me"] # cs_crsp[j]["me"]
                /\ cs_crsp[i]["retnm"] * v[2] < v[1]
                /\ v[1] < cs_crsp[j]["retnm"] * v[2]

\* the columns a call may write
Written ==
    IF lastcall'.fn = "portfolio_sort" THEN {lastcall'.id_col}
    ELSE {"retnm", "me_x_retnm"}

\* C8 (as stated): a call of portfolio_sort or compute_portfolio_returns leaves
\* the table passed in unchanged, no column added or overwritten
C8_TableUnchanged ==
    [][(PortfolioSort \/ ComputePortfolioReturns) => cs_crsp' = cs_crsp]_vars

\* C8 (amended): a call keeps the rows of the table passed in and every column
\* but the ones it writes: id_col for portfolio_sort, retnm and me_x_retnm for
\* compute_portfolio_returns
C8_FrameOfCalls ==
    [][(PortfolioSort \/ ComputePortfolioReturns) =>
        /\ Len(cs_crsp') = Len(cs_crsp)
        /\ \A i \in 1..Len(cs_crsp) :
            /\ DOMAIN cs_crsp'[i] = (DOMAIN cs_crsp[i]) \cup Written
            /\ \A c \in (DOMAIN cs_crsp[i]) \ Written : cs_crsp'[i][c] = cs_crsp[i][c]]_vars

\* both calls made: the table carries the group columns and retnm, me_x_retnm
C8_Witness ==
    /\ Returned
    /\ \A i \in 1..Len(cs_crsp) :
        {"me_group", "beme_group", "retnm", "me_x_retnm"} \subseteq DOMAIN cs_crsp[i]
    /\ \E i \in 1..Len(cs_crsp) : notnull(cs_crsp[i]["me_x_retnm"])

\* a + b on floats
Plus(a, b) == IF a = NaNF \/ b = NaNF THEN NaNF ELSE FracAdd(a, b)
Half(a) == IF a = NaNF THEN NaNF ELSE FracHalf(a)

\* C9: at every date hml is
\* (1/2)(small-value + big-value) - (1/2)(small-growth + big-growth)
C9_HmlFormula ==
    pc = "done" =>
    \A n \in 1..Len(hml.index) :
        LET row == portfolio_returns.data[n]
        IN hml.data[n] = Minus(Half(Plus(row[<<1, 3>>], row[<<2, 3>>])),
                               Half(Plus(row[<<1, 1>>], row[<<2, 1>>])))

\* the stocks in group g in month d with market cap and sort variables whose
\* return of month d + 1 is known
HeldOver(d, g) ==
    {i \in 1..Len(cs_crsp) :
        /\ cs_crsp[i]["date"] = d
        /\ \A j \in 1..Len(sort_groups) : cs_crsp[i][sort_groups[j]] = g[j]
        /\ notnull(cs_crsp[i]["me"])
        /\ \A j \in 1..Len(sort_variables) : notnull(cs_crsp[i][sort_variables[j]])
        /\ RowOf(cs_crsp, cs_crsp[i]["PERMNO"], d + 1) # 0
        /\ notnull(cs_crsp[RowOf(cs_crsp, cs_crsp[i]["PERMNO"], d + 1)]["ret"])}

\* C2: the value in column g at index month t is the return realized in month
\* t by the stocks that were in group g in month t - 1, weighted by their
\* market caps of month t - 1
C2_RealizationMonth ==
    Returned =>
    \A n \in 1..Len(portfolio_returns.index) : \A g \in portfolio_returns.columns :
        LET t == portfolio_returns.index[n]
            S == HeldOver(t - 1, g)
            me == [i \in S |-> cs_crsp[i]["me"]]
            ret == [i \in S |->
                      cs_crsp[RowOf(cs_crsp, cs_crsp[i]["PERMNO"], t)]["ret"]]
        IN portfolio_returns.data[n][g] =
              IF S = {} THEN NaNF
              ELSE Frac(SumOver(S, [i \in S |-> me[i] * ret[i]]), SumOver(S, me))

\* the June at or before month m
JuneBefore(m) == m - ((m - June) % 12)

\* C5: with annual sorts a firm's group in month m is the group it was
\* assigned in the most recent June at or before m (at most 11 months back),
\* and none if it was assigned none in that June
C5_JuneGroups ==
    annual =>
    \A col \in SortedCols :
        LET monthly == portfolio_sort(cs_crsp, col, TRUE, Percentiles(col), IdCol(col), FALSE)
        IN \A i \in 1..Len(cs_crsp) :
            LET j == RowOf(cs_crsp, cs_crsp[i]["PERMNO"], JuneBefore(cs_crsp[i]["date"]))
            IN cs_crsp[i][IdCol(col)] =
                  IF j = 0 THEN NaN ELSE monthly[j][IdCol(col)]

\* the value a frame reports for group g at date t (missing when it has none)
ValueAt(frame, t, g) ==
    LET S == {n \in 1..Len(frame.index) : frame.index[n] = t}
    IN IF S = {} \/ g \notin frame.columns THEN NaNF
       ELSE frame.data[CHOOSE n \in S : TRUE][g]

\* the dates of the rows on which the two tables differ
ChangedDates == {cs_crsp[i]["date"] : i \in {j \in 1..Len(cs_crsp) :
                    \E c \in {"ret", "me", "beme", "EXCHCD"} : cs_crsp[j][c] # alt[j][c]}}

AllGroups == portfolio_returns.columns \cup alt_returns.columns

\* C7 (as stated): the returns reported for period t are unchanged by a change
\* of input values dated before t - 1, for annual and for monthly sorts
C7_OneStepLag ==
    (Returned /\ alt # <<>>) =>
    \A n \in 1..Len(portfolio_returns.index) :
        LET t == portfolio_returns.index[n]
        IN (\A d \in ChangedDates : d < t - 1) =>
            \A g \in AllGroups :
                ValueAt(alt_returns, t, g) = ValueAt(portfolio_returns, t, g)

\* C7 (amended): with monthly sorts the returns reported at an index date t
\* are unchanged by a change of input values dated before the index date
\* that precedes t (t - 1 when no month is missing)
C7_LagToPreviousIndexDate ==
    (Returned /\ alt # <<>> /\ ~annual) =>
    \A n \in 2..Len(portfolio_returns.index) :
        LET t == portfolio_returns.index[n]
        IN (\A d \in ChangedDates : d < portfolio_returns.index[n - 1]) =>
            \A g \in AllGroups :
                ValueAt(alt_returns, t, g) = ValueAt(portfolio_returns, t, g)

\* a monthly run in which a value dated before the previous index date was
\* changed, and a return is reported two index dates later
C7_Witness ==
    /\ Returned /\ alt # <<>> /\ ~annual
    /\ \E n \in 2..Len(portfolio_returns.index) :
        /\ ChangedDates # {}
        /\ \A d \in ChangedDates : d < portfolio_returns.index[n - 1]
        /\ \E g \in portfolio_returns.columns : portfolio_returns.data[n][g] # NaNF
        /\ alt_returns # portfolio_returns

Prepared == pc \in {"merge", "merged"}

\* C1: after the preparation every accounting value on the row of month m
\* comes from a report whose fiscal year ended in a month d with
\* m - 29 <= d <= m - 6
C1_NoLookahead ==
    Prepared =>
    \A i \in 1..Len(compustat) : \A n \in 1..Len(cs_vars) :
        LET v == compustat[i][cs_vars[n]]
            m == compustat[i]["date"]
        IN notnull(v) =>
            \E j \in 1..Len(reports) :
                /\ reports[j][cs_vars[n]] = v
                /\ m - 29 <= reports[j]["date"]
                /\ reports[j]["date"] <= m - ShiftMonths

\* C6: every accounting value on a row of firm p was reported by firm p, and
\* the first six monthly rows of every firm carry no accounting data
C6_WithinFirm ==
    Prepared =>
    \A i \in 1..Len(compustat) : \A n \in 1..Len(cs_vars) :
        LET v == compustat[i][cs_vars[n]]
        IN /\ notnull(v) =>
                \E j \in 1..Len(reports) :
                    /\ reports[j][cs_vars[n]] = v
                    /\ reports[j]["PERMNO"] = compustat[i]["PERMNO"]
           /\ Cardinality(PrevOf(compustat, i)) < ShiftMonths => isnull(v)

\* C10: r12_2 on the row of firm p and month m is the sum of firm p's own
\* returns of the 11 months m - 11 .. m - 1; no return of another firm enters
C10_OwnReturns ==
    \A i \in 1..Len(cs_crsp) :
        (HasCol(cs_crsp, "r12_2") /\ notnull(cs_crsp[i]["r12_2"])) =>
            LET p == cs_crsp[i]["PERMNO"]
                m == cs_crsp[i]["date"]
                own == [d \in (m - Window)..(m - 1) |-> RowOf(cs_crsp, p, d)]
            IN /\ \A d \in DOMAIN own : own[d] # 0 /\ notnull(cs_crsp[own[d]]["ret"])
               /\ cs_crsp[i]["r12_2"] =
                     SumOver(DOMAIN own, [d \in DOMAIN own |-> cs_crsp[own[d]]["ret"]])
\* the long-short return of the stocks formed in month t - 1, realized in month t
RealizedIn(t) ==
    LET formed == unstacked(cs_crsp, sort_groups)
        S == {k \in 1..Len(formed.index) : formed.index[k] = t - 1}
    IN IF S = {} THEN NaNF ELSE hml_of(formed).data[CHOOSE k \in S : TRUE]

\* C11: the umd value indexed at month t is the long-short momentum return
\* realized in month t (moved from formation to realization month exactly once)
C11_UmdRealizationMonth ==
    (pc = "done" /\ umd # EmptySeries) =>
    \A k \in 1..Len(umd.index) : umd.data[k] = RealizedIn(umd.index[k])

\* dates of the rows on which the two reversal tables differ
StrevChanged == {nb.df[i]["date"] : i \in {j \in 1..Len(nb.df) : nb.df[j] # nb_alt.df[j]}}

\* C12: the volatility-scaled weights applied in month t (scaled_lagged_position
\* at t) are the same in two runs whose returns differ only in months >= t
C12_NoLookahead ==
    pc = "scaled" =>
    \A k \in 1..Len(nb.scaled_lagged_position.index) :
        (\A d \in StrevChanged : d >= nb.scaled_lagged_position.index[k]) =>
            nb.scaled_lagged_position.data[k] = nb_alt.scaled_lagged_position.data[k]

\* a month with a finite non-zero weight, the changed return dated in or after
\* it, and the change showing in later weights
C12_Witness ==
    /\ pc = "scaled"
    /\ \E k \in 1..Len(nb.scaled_lagged_position.index) :
        /\ StrevChanged # {}
        /\ \A d \in StrevChanged : d >= nb.scaled_lagged_position.index[k]
        /\ \E p \in nb.scaled_lagged_position.columns :
            LET w == nb.scaled_lagged_position.data[k][p]
            IN w[1] # 0 /\ w[3] # 0
        /\ nb.scaled_lagged_position # nb_alt.scaled_lagged_position

\* the position formula on the rows of one month with two distinct returns:
\* +1 for the lowest return, -1 for the highest, all in [-1, 1], non-increasing
PositionsOK(df) ==
    \A i \in 1..Len(df) :
        LET G == DateGroup(df, i)
            R == {df[j]["ret"] : j \in G}
        IN (notnull(df[i]["ret"]) /\ Cardinality(R) >= 2) =>
            /\ df[i]["position"] # NaNF
            /\ FracLeq(<<-1, 1>>, df[i]["position"])
            /\ FracLeq(df[i]["position"], <<1, 1>>)
            /\ df[i]["ret"] = Min(R) => df[i]["position"] = <<1, 1>>
            /\ df[i]["ret"] = Max(R) => df[i]["position"] = <<-1, 1>>
            /\ \A j \in G : df[i]["ret"] <= df[j]["ret"] =>
                    FracLeq(df[j]["position"], df[i]["position"])

\* C13: both versions of the position formula give +1 to the lowest return and
\* -1 to the highest, positions in [-1, 1] and non-increasing in the return
C13_PositionFormula ==
    pc \in {"unstack", "pct_unstack"} => PositionsOK(nb.df)

SubPortfolios == {"small_losers", "big_losers", "small_winners", "big_winners"}
FFDone(labels) == nb # <<>> /\ "me_pct" \in DOMAIN nb /\ pc \in labels

\* C14: the month-t return of each sub-portfolio is sum(Lme * ret) / sum(Lme)
\* over one set of members, and lies between the smallest and the largest
\* member return
C14_VwReturn ==
    FFDone({"weights", "trades"}) =>
    \A k \in 1..Len(nb.portfolio_returns.index) :
        \A g \in SubPortfolios \cap nb.portfolio_returns.columns :
            LET d == nb.portfolio_returns.index[k]
                m == SelectSeq(lagged_members(nb.df, d, g), LAMBDA r : notnull(r["ret"]))
                rets == {m[i]["ret"] : i \in 1..Len(m)}
                v == nb.portfolio_returns.data[k][g]
            IN /\ v = vw_return_same_rows(nb.df, d, g)
               /\ v # NaNF => /\ FracLeq(<<Min(rets), 1>>, v)
                              /\ FracLeq(v, <<Max(rets), 1>>)

\* the 50th percentile of a sequence of numbers, in hundredths
Median100(x) ==
    LET srt == SortSeq(x, LAMBDA a, b : a < b)
        n == Len(srt)
    IN IF n % 2 = 1 THEN 100 * srt[(n + 1) \div 2]
       ELSE 50 * (srt[n \div 2] + srt[n \div 2 + 1])

\* C15: in every copy, me_p50 is the 50th percentile of the market caps of the
\* NYSE stocks of the month, ret_p30 and ret_p70 the 30th and 70th percentiles
\* of the NYSE returns
C15_Breakpoints ==
    FFDone({"merge_breakpoints", "assign", "vw_returns", "weights", "trades"}) =>
    \A d \in DOMAIN nb.breakpoints :
        LET mes == nyse_values(nb.df, "me", d)
            rets == nyse_values(nb.df, "ret", d)
        IN /\ mes # <<>> => nb.breakpoints[d]["me_p50"] = Median100(mes)
           /\ rets # <<>> => /\ nb.breakpoints[d]["ret_p30"] = Percentile100(rets, 30)
                             /\ nb.breakpoints[d]["ret_p70"] = Percentile100(rets, 70)

\* the members of a lagged sub-portfolio in a month, as positions of df
MembersAt(d, g) == {i \in 1..Len(nb.df) : nb.df[i]["date"] = d /\ nb.df[i]["Lportfolio"] = g}
AllFour(d) == \A g \in SubPortfolios : MembersAt(d, g) # {}
RECURSIVE FracSumOver(_, _)
FracSumOver(S, f) ==
    IF S = {} THEN <<0, 1>>
    ELSE LET x == CHOOSE y \in S : TRUE IN FracAdd(f[x], FracSumOver(S \ {x}, f))
FracAbs(x) == <<Abs(x[1]), x[2]>>
RECURSIVE IntSumOver(_, _)
IntSumOver(S, f) ==
    IF S = {} THEN 0 ELSE LET x == CHOOSE y \in S : TRUE IN f[x] + IntSumOver(S \ {x}, f)

\* C16: in a month in which all four lagged sub-portfolios are non-empty, the
\* weights are proportional to lagged market cap within each sub-portfolio,
\* sum to +1/2 in each loser and -1/2 in each winner sub-portfolio, sum to 0
\* and to 2 in absolute value, and are 0 for stocks in no sub-portfolio
C16_Weights ==
    FFDone({"trades"}) =>
    \A k \in 1..Len(nb.weights.index) :
        LET d == nb.weights.index[k]
            w == nb.weights.data[k]
            lme == [i \in 1..Len(nb.df) |-> nb.df[i]["Lme"]]
            held == UNION {{nb.df[i]["permno"] : i \in MembersAt(d, g)} : g \in SubPortfolios}
        IN AllFour(d) =>
            /\ \A g \in SubPortfolios :
                LET M == MembersAt(d, g)
                    half == IF g \in {"small_losers", "big_losers"} THEN <<1, 2>> ELSE <<-1, 2>>
                IN /\ \A i \in M :
                        w[nb.df[i]["permno"]] =
                            FracMul(half, Frac(lme[i], IntSumOver(M, lme)))
                   /\ FracSumOver({nb.df[i]["permno"] : i \in M}, w) = half
            /\ FracSumOver(nb.weights.columns, w) = <<0, 1>>
            /\ FracSumOver(nb.weights.columns, [p \in nb.weights.columns |-> FracAbs(w[p])])
                    = <<2, 1>>
            /\ \A p \in nb.weights.columns \ held : w[p] = <<0, 1>>

\* a month with all four sub-portfolios, one of them holding two stocks
C16_Witness ==
    /\ FFDone({"trades"})
    /\ \E k \in 1..Len(nb.weights.index) :
        /\ AllFour(nb.weights.index[k])
        /\ \E g \in SubPortfolios : Cardinality(MembersAt(nb.weights.index[k], g)) >= 2
        /\ \E p \in nb.weights.columns : nb.weights.data[k][p] = <<0, 1>>

\* positions of the rows of month d flagged in column side
Flagged(d, side) ==
    {i \in 1..Len(nb.df) : nb.df[i]["date"] = d /\ nb.df[i][side] = 1}
EqualWeights(d, side) ==
    LET F == Flagged(d, side)
        rows == {i \in 1..Len(nb.df) : nb.df[i]["date"] = d}
    IN F # {} =>
        /\ \A i \in rows :
            nb.weights[i][side] = IF i \in F THEN <<1, Cardinality(F)>> ELSE <<0, 1>>
        /\ FracSumOver(rows, [i \in rows |-> nb.weights[i][side]]) = <<1, 1>>

\* C17: in a month with a flagged stock, each stock flagged long (short) gets
\* 1/N, N the number flagged long (short) that month, every other stock 0, so
\* the long and the short weights of the month each sum to 1
C17_EqualWeights ==
    pc = "decile_done" =>
    \A d \in DOMAIN nb.ns : EqualWeights(d, "long") /\ EqualWeights(d, "short")

\* a month with two stocks flagged long, one flagged short and one not flagged
C17_Witness ==
    /\ pc = "decile_done"
    /\ \E d \in DOMAIN nb.ns :
        /\ Cardinality(Flagged(d, "long")) = 2
        /\ Cardinality(Flagged(d, "short")) = 1
        /\ \E i \in 1..Len(nb.df) :
            nb.df[i]["date"] = d /\ nb.df[i]["long"] = 0 /\ nb.df[i]["short"] = 0

\* the sample covariance of two columns: (sum xy - sum x * sum y / n) / (n - 1)
\* over the rows where both are observed
Covariance(df, a, b) ==
    LET rows == both_observed(df, a, b)
        n == Len(rows)
        sxy == SumSeq([t \in 1..n |-> rows[t][a] * rows[t][b]])
        sx == SumSeq([t \in 1..n |-> rows[t][a]])
        sy == SumSeq([t \in 1..n |-> rows[t][b]])
    IN IF n < 2 THEN NaNF ELSE Frac(n * sxy - sx * sy, n * (n - 1))

\* C18: for 0 < s <= 1 the result has the diagonal of the sample covariance
\* matrix and its off-diagonal elements times (1 - s), so it is symmetric and
\* diagonal for s = 1; for s = 0 it is the covariance matrix itself
C18_Shrinkage ==
    pc = "returned" =>
    LET s == nb.shrink_pct
        m == nb.cov_matrix
        cols == DOMAIN nb.df[1]
    IN /\ DOMAIN m = cols
       /\ \A a \in cols : \A b \in cols :
            /\ m[a][b] = m[b][a]
            /\ a = b => m[a][b] = Covariance(nb.df, a, b)
            /\ a # b => m[a][b] = FracMul(Covariance(nb.df, a, b), FracSub(<<1, 1>>, s))
            /\ (a # b /\ s = <<1, 1>> /\ m[a][b] # NaNF) => m[a][b] = <<0, 1>>
            /\ s = <<0, 1>> => m[a][b] = Covariance(nb.df, a, b)

\* a call with 0 < s < 1 on returns with a non-zero covariance
C18_Witness ==
    /\ pc = "returned"
    /\ nb.shrink_pct \notin {<<0, 1>>, <<1, 1>>}
    /\ \E a \in DOMAIN nb.cov_matrix : \E b \in DOMAIN nb.cov_matrix :
        /\ a # b
        /\ nb.cov_matrix[a][b] # NaNF
        /\ nb.cov_matrix[a][b][1] # 0
        /\ nb.cov_matrix[a][a][1] > 0

====
